---- MODULE Spec2Model ----
(***************************************************************************)
(* Model of the model-call and response-validation pipeline of             *)
(* AI-Study-Buddy: the retrying Gemini client (callGeminiAPI), the         *)
(* validating wrapper (callGeminiWithRetry), the JSON-array extraction and *)
(* schema validation, and the HTTP handlers built on them.                 *)
(*                                                                         *)
(* A text is a sequence of character tokens.  The tokens "F", "B", "Q",    *)
(* "Q3" and "QX" each stand for one complete JSON object literal (see      *)
(* ObjectOf); every other token is a single character.                     *)
(***************************************************************************)
EXTENDS Integers, Sequences, FiniteSets, TLC

(***************************************************************************)
(* Bounds of the model.                                                    *)
(***************************************************************************)
MaxChatter == 1
MaxHeaderLen == 2
NumInvocations == 2

(***************************************************************************)
(* JavaScript values that are not strings.                                 *)
(***************************************************************************)
Null == <<"NULL">>
Undefined == <<"UNDEF">>
NaN == -1

IsString(t) == t # Null /\ t # Undefined

\* JavaScript truthiness of a text value: null, undefined and "" are falsy.
Truthy(t) == IsString(t) /\ t # <<>>

\* `response || ''`
OrEmpty(t) == IF Truthy(t) THEN t ELSE <<>>

Min(S) == CHOOSE x \in S : \A y \in S : x <= y
Max(S) == CHOOSE x \in S : \A y \in S : x >= y

RECURSIVE Pow2(_)
Pow2(n) == IF n = 0 THEN 1 ELSE 2 * Pow2(n - 1)

(***************************************************************************)
(* JSON values and JSON.parse on token sequences.                          *)
(***************************************************************************)
Ws == {" ", "\n"}
Digits == {"0", "1", "2", "3"}
ObjTok == {"F", "B", "Q", "Q3", "QX"}

JStr(s) == [t |-> "str", s |-> s]
JNum == [t |-> "num"]
JArr(items) == [t |-> "arr", items |-> items]
JObj(f) == [t |-> "obj", f |-> f]
JNull == [t |-> "null"]

\* The object literal a macro token stands for.
ObjectOf(tok) ==
  CASE tok = "F"  -> JObj([question |-> JStr("q"), answer |-> JStr("a")])
    [] tok = "B"  -> JObj([question |-> JStr("q")])
    [] tok = "Q"  -> JObj([question |-> JStr("q"),
                           options |-> JArr(<<JStr("a"), JStr("b"), JStr("c"), JStr("d")>>),
                           correctAnswer |-> JStr("b"), explanation |-> JStr("e")])
    [] tok = "Q3" -> JObj([question |-> JStr("q"),
                           options |-> JArr(<<JStr("a"), JStr("b"), JStr("c")>>),
                           correctAnswer |-> JStr("b"), explanation |-> JStr("e")])
    [] tok = "QX" -> JObj([question |-> JStr("q"),
                           options |-> JArr(<<JStr("a"), JStr("b"), JStr("c"), JStr("d")>>),
                           correctAnswer |-> JStr("z"), explanation |-> JStr("e")])

ParseFail == [ok |-> FALSE, next |-> 0, val |-> JNum]

\* Index of the first non-whitespace token at or after i (Len(s) + 1 if none).
SkipWs(s, i) == Min({j \in i..(Len(s) + 1) : j = Len(s) + 1 \/ s[j] \notin Ws})

\* Index just after the run of digits starting at i.
DigitsEnd(s, i) == Min({j \in i..(Len(s) + 1) : j = Len(s) + 1 \/ s[j] \notin Digits})

\* JSON number: -? int (. digits)?  with no leading zero on a multi-digit int.
ParseNumber(s, i) ==
  LET st == IF s[i] = "-" THEN i + 1 ELSE i
      ie == IF st > Len(s) THEN st ELSE DigitsEnd(s, st)
      intOk == ie > st /\ (s[st] = "0" => ie = st + 1)
      hasFrac == ie <= Len(s) /\ s[ie] = "."
      fe == IF hasFrac /\ ie + 1 <= Len(s) THEN DigitsEnd(s, ie + 1) ELSE ie + 1
  IN IF ~intOk THEN ParseFail
     ELSE IF ~hasFrac THEN [ok |-> TRUE, next |-> ie, val |-> JNum]
     ELSE IF fe > ie + 1 THEN [ok |-> TRUE, next |-> fe, val |-> JNum]
     ELSE ParseFail

\* The element of a one-element set.
The(S) == CHOOSE v \in S : TRUE

\* JSON string: from the quote at i to the next quote; a raw line break
\* inside a string is a syntax error.  (No token stands for a backslash.)
ParseString(s, i) ==
  The({IF q = 0 \/ \E k \in (i + 1)..(q - 1) : s[k] = "\n" THEN ParseFail
       ELSE [ok |-> TRUE, next |-> q + 1, val |-> JStr(SubSeq(s, i + 1, q - 1))]
       : q \in {IF \E k \in (i + 1)..Len(s) : s[k] = "\""
                 THEN Min({k \in (i + 1)..Len(s) : s[k] = "\""}) ELSE 0}})

RECURSIVE ParseValue(_, _), ParseItems(_, _, _), ParseCard(_, _)
\* One JSON value starting at the first non-whitespace token at or after i.
\* An object is either a macro token or written out: the token "{Q:" is
\* {"question": and the token ",A:" is ,"answer":
ParseValue(s, i) ==
  The({IF j > Len(s) THEN ParseFail
       ELSE IF s[j] \in ObjTok THEN [ok |-> TRUE, next |-> j + 1, val |-> ObjectOf(s[j])]
       ELSE IF s[j] = "null" THEN [ok |-> TRUE, next |-> j + 1, val |-> JNull]
       ELSE IF s[j] = "\"" THEN ParseString(s, j)
       ELSE IF s[j] = "{Q:" THEN ParseCard(s, j)
       ELSE IF s[j] \in Digits \cup {"-"} THEN ParseNumber(s, j)
       ELSE IF s[j] = "["
         THEN The({IF k <= Len(s) /\ s[k] = "]"
                     THEN [ok |-> TRUE, next |-> k + 1, val |-> JArr(<<>>)]
                     ELSE ParseItems(s, j + 1, <<>>) : k \in {SkipWs(s, j + 1)}})
       ELSE ParseFail : j \in {SkipWs(s, i)}})

\* {"question": value ,"answer": value } with the token "{Q:" at i.
ParseCard(s, i) ==
  The({The({IF ~q.ok \/ k > Len(s) THEN ParseFail
            ELSE IF s[k] # ",A:" THEN ParseFail
            ELSE The({The({IF ~a.ok \/ m > Len(s) THEN ParseFail
                           ELSE IF s[m] # "}" THEN ParseFail
                           ELSE [ok |-> TRUE, next |-> m + 1,
                                 val |-> JObj([question |-> q.val, answer |-> a.val])]
                           : m \in {IF a.ok THEN SkipWs(s, a.next) ELSE 0}})
                      : a \in {ParseValue(s, k + 1)}})
            : k \in {IF q.ok THEN SkipWs(s, q.next) ELSE 0}})
       : q \in {ParseValue(s, i + 1)}})

\* The items of a non-empty array, the next item starting at i.
ParseItems(s, i, acc) ==
  The({The({IF ~v.ok \/ k > Len(s) THEN ParseFail
            ELSE IF s[k] = "]"
              THEN [ok |-> TRUE, next |-> k + 1, val |-> JArr(Append(acc, v.val))]
            ELSE IF s[k] = "," THEN ParseItems(s, k + 1, Append(acc, v.val))
            ELSE ParseFail : k \in {IF v.ok THEN SkipWs(s, v.next) ELSE 0}})
       : v \in {ParseValue(s, i)}})

\* JSON.parse: one value and nothing but whitespace after it; throws otherwise.
JSONParse(s) ==
  The({IF v.ok /\ SkipWs(s, v.next) = Len(s) + 1 THEN v ELSE ParseFail
       : v \in {ParseValue(s, 1)}})

\* Variant: the whole text is taken as the span.
WholeText(text) ==
  [found |-> text # <<>>, from |-> 1, to |-> Len(text)]

\* text.match(/\[[\s\S]*\]/): from the first "[" to the last "]" after it.
BracketSpan(text) ==
  LET opens == {i \in 1..Len(text) : text[i] = "["}
      first == IF opens = {} THEN 0 ELSE Min(opens)
      closes == {j \in 1..Len(text) : text[j] = "]" /\ j > first}
  IN IF opens = {} \/ closes = {} THEN [found |-> FALSE, from |-> 0, to |-> 0]
     ELSE [found |-> TRUE, from |-> first, to |-> Max(closes)]

\* extractJsonArray: [ok |-> FALSE] models the null result.
extractJsonArray(text) ==
  IF ~Truthy(text) THEN ParseFail
  ELSE LET m == BracketSpan(text)
       IN IF ~m.found THEN ParseFail
          ELSE The({JSONParse(span) : span \in {SubSeq(text, m.from, m.to)}})

(***************************************************************************)
(* Ajv schemas.                                                            *)
(***************************************************************************)
HasStringProps(v, names) ==
  \A n \in names : n \in DOMAIN v.f => v.f[n].t = "str"

FlashcardItemOk(v) ==
  /\ v.t = "obj"
  /\ HasStringProps(v, {"question", "answer"})
  /\ {"question", "answer"} \subseteq DOMAIN v.f

QuizItemOk(v) ==
  /\ v.t = "obj"
  /\ HasStringProps(v, {"question", "correctAnswer", "explanation"})
  /\ "options" \in DOMAIN v.f =>
        /\ v.f["options"].t = "arr"
        /\ \A i \in 1..Len(v.f["options"].items) : v.f["options"].items[i].t = "str"
        /\ Len(v.f["options"].items) >= 4
        /\ Len(v.f["options"].items) <= 4
  /\ {"question", "options", "correctAnswer", "explanation"} \subseteq DOMAIN v.f

validateFlashcardsMinItems(v) ==
  /\ v.t = "arr" /\ v.items # <<>>
  /\ \A i \in 1..Len(v.items) : FlashcardItemOk(v.items[i])

validateFlashcards(v) ==
  v.t = "arr" /\ \A i \in 1..Len(v.items) : FlashcardItemOk(v.items[i])

validateQuiz(v) ==
  v.t = "arr" /\ \A i \in 1..Len(v.items) : QuizItemOk(v.items[i])

(***************************************************************************)
(* isNumberedMarkdownList.                                                 *)
(***************************************************************************)
RECURSIVE SplitLines(_, _, _)
\* text.split(/\r?\n/)
SplitLines(text, i, cur) ==
  IF i > Len(text) THEN <<cur>>
  ELSE IF text[i] = "\n" THEN <<cur>> \o SplitLines(text, i + 1, <<>>)
  ELSE SplitLines(text, i + 1, Append(cur, text[i]))

\* String.prototype.trim
Trim(l) ==
  LET keep == {i \in 1..Len(l) : l[i] \notin Ws}
  IN IF keep = {} THEN <<>> ELSE SubSeq(l, Min(keep), Max(keep))

\* /^\d+\.[\s\-]/.test(l) || /^\d+\.\s+/.test(l)
IsNumberedLine(l) ==
  LET e == IF Len(l) = 0 THEN 1 ELSE DigitsEnd(l, 1)
  IN /\ e > 1
     /\ e + 1 <= Len(l)
     /\ l[e] = "."
     /\ l[e + 1] \in Ws \cup {"-"}

\* Variant: at least half of the lines, not rounded down.
isNumberedMarkdownListHalf(text) ==
  /\ Truthy(text)
  /\ \E raw \in {SplitLines(text, 1, <<>>)} :
       \E lines \in {SelectSeq([i \in 1..Len(raw) |-> Trim(raw[i])], LAMBDA l : l # <<>>)} :
         \E numbered \in {SelectSeq(lines, IsNumberedLine)} :
           Len(lines) > 0 /\ 2 * Len(numbered) >= Len(lines)

isNumberedMarkdownList(text) ==
  /\ Truthy(text)
  /\ \E raw \in {SplitLines(text, 1, <<>>)} :
       \E lines \in {SelectSeq([i \in 1..Len(raw) |-> Trim(raw[i])], LAMBDA l : l # <<>>)} :
         \E numbered \in {SelectSeq(lines, IsNumberedLine)} :
           /\ Len(lines) # 0
           /\ Len(numbered) >= Max({1, Len(lines) \div 2})

(***************************************************************************)
(* Requests, remote replies and the retry-after header.                    *)
(***************************************************************************)
Endpoints == {"askRetrying", "flashRetrying", "askExpress", "flashExpress",
              "quizExpress", "flashSimple", "quizSimple"}

\* Handlers whose model client is the retrying callGeminiAPI.
Retrying(e) == e \in {"askRetrying", "flashRetrying"}
\* Routes of the express server, which go through callGeminiWithRetry.
Express(e) == e \in {"askExpress", "flashExpress", "quizExpress"}
\* Serverless handlers with the single-shot callGeminiAPI.
Simple(e) == e \in {"flashSimple", "quizSimple"}
\* Endpoints that promise a JSON array.
Structured(e) == e \in {"flashRetrying", "flashExpress", "quizExpress", "flashSimple", "quizSimple"}
IsQuiz(e) == e \in {"quizExpress", "quizSimple"}

\* app.post registers the route for POST only; the serverless handlers
\* receive every method.
MethodsOf(e) == IF Express(e) THEN {"POST"} ELSE {"POST", "GET", "OPTIONS"}

\* req.body.prompt / req.body.topic as a sequence of words.
Prompts == {Undefined, <<>>, <<"x">>, <<"x", "steps">>}
\* The structured endpoints read a topic, which the step-intent test ignores.
\* Prompts for the step-intent test of /api/ask of the express server.
StepPrompts == {<<"Footsteps">>, <<"PROCEDURE">>, <<"ste", "p">>}
PromptsOf(e) ==
  IF Structured(e) THEN Prompts \ {<<"x", "steps">>}
  ELSE IF e = "askExpress" THEN Prompts \cup StepPrompts
  ELSE Prompts

RECURSIVE Chatter(_)
Chatter(n) == IF n = 0 THEN <<>> ELSE <<"x">> \o Chatter(n - 1)

ListCores == {<<>>,
              <<"x", "\n", "x">>,
              <<"1", ".", " ", "x", "\n", "2", ".", " ", "x">>,
              <<"1", ".", " ", "x", "\n", "2", ".", " ", "x", "\n", "3", ".", " ", "x">>,
              <<"1", ".", "-", "x", "\n", "x", "\n", "x">>,
              <<"x", "\n", "x", "\n", "x", "\n", "\n", "1", ".", " ", "x">>}
FlashCores == {<<>>, <<"[", "F", "]">>, <<"[", "]">>, <<"[", "F", ",", "B", "]">>,
               <<"[", "x", "]", " ", "[", "F", "]">>}
QuizCores == {<<>>, <<"[", "Q", "]">>, <<"[", "]">>, <<"[", "Q3", "]">>,
              <<"[", "QX", "]">>, <<"[", "F", "]">>}

CoresOf(e) ==
  IF ~Structured(e) THEN ListCores ELSE IF IsQuiz(e) THEN QuizCores ELSE FlashCores

\* The texts a well-formed 2xx reply can carry: a core with up to MaxChatter
\* characters of prose before and after it.
Replies(e) ==
  {Chatter(a) \o c \o Chatter(b) : a \in 0..MaxChatter, b \in 0..MaxChatter, c \in CoresOf(e)}

HeaderChars == {"0", "2", "a"}
RECURSIVE SeqsUpTo(_, _)
SeqsUpTo(S, n) ==
  IF n = 0 THEN {<<>>}
  ELSE LET shorter == SeqsUpTo(S, n - 1)
       IN shorter \cup {Append(q, c) : q \in shorter, c \in S}

\* response.headers.get('retry-after'): null when absent, else the value.
Headers == {Null} \cup SeqsUpTo(HeaderChars, MaxHeaderLen)

\* Outcomes of one fetch of the remote endpoint.
\*   ok            2xx whose first candidate's first part has a text
\*   s429 / s500   non-2xx status
\*   neterr        fetch (or reading the body) rejects
\*   badJson       2xx whose body is not JSON
\*   noCandidates  2xx without candidates
\*   noContent     2xx whose first candidate has no content
\*   noParts       2xx whose content has no parts
\*   noText        2xx whose first part has no text field
FailKinds == {"s429", "s500", "neterr", "badJson", "noCandidates", "noContent",
              "noParts", "noText"}
Malformed == {"badJson", "noCandidates", "noContent", "noParts", "noText"}

RemoteReplies(e) ==
  {[kind |-> "ok", text |-> t, header |-> Null] : t \in Replies(e)}
  \cup {[kind |-> "s429", text |-> <<>>, header |-> h] : h \in Headers}
  \cup {[kind |-> k, text |-> <<>>, header |-> Null] : k \in FailKinds \ {"s429"}}

DigitValue(c) == CASE c = "0" -> 0 [] c = "1" -> 1 [] c = "2" -> 2 [] c = "3" -> 3

RECURSIVE DecimalOf(_)
DecimalOf(ds) ==
  IF ds = <<>> THEN 0
  ELSE 10 * DecimalOf(SubSeq(ds, 1, Len(ds) - 1)) + DigitValue(ds[Len(ds)])

\* parseInt(str, 10): the longest prefix of decimal digits, NaN if there is none.
parseInt(str) ==
  LET e == IF Len(str) = 0 THEN 1 ELSE DigitsEnd(str, 1)
  IN IF e = 1 THEN NaN ELSE DecimalOf(SubSeq(str, 1, e - 1))

\* x * 1000 in JavaScript arithmetic.
Times1000(x) == IF x = NaN THEN NaN ELSE x * 1000

(***************************************************************************)
(* The retrying callGeminiAPI.                                             *)
(***************************************************************************)
maxRetries == 3

\* if (!response.ok)
ResponseOk(r) == r.kind \notin {"s429", "s500"}

\* Variant: a 429 is retried whatever the attempt.
RateLimitRetryAlways(r, a) == r.kind = "s429"

\* status === 429 && attempt < maxRetries
RateLimitRetry(r, a) == r.kind = "s429" /\ a < maxRetries

\* Variant: the header is ignored.
BackoffOnlyWait(h, a) == Pow2(a) * 1000

\* retryAfter ? parseInt(retryAfter, 10) * 1000 : Math.pow(2, attempt) * 1000
RateLimitWait(h, a) ==
  IF Truthy(h) THEN Times1000(parseInt(h)) ELSE Pow2(a) * 1000

\* Math.pow(2, attempt) * 1000 in the catch branch
BackoffWait(a) == Pow2(a) * 1000

\* Variant: the catch branch retries on the last attempt too.
CanRetryThrough(a) == a <= maxRetries

\* if (attempt < maxRetries) in the catch branch
CanRetry(a) == a < maxRetries

\* Variant: the counter is not advanced.
StuckAttempt(a) == a

\* attempt++
NextAttempt(a) == a + 1

\* while (attempt <= maxRetries)
LoopCond(a) == a <= maxRetries

\* Variant: the text is read from the second part of the first candidate.
ReadReplySecondPart(r) ==
  CASE r.kind \in {"ok", "noText"} -> [threw |-> FALSE, value |-> Undefined]
    [] OTHER -> [threw |-> TRUE, value |-> Null]

\* Reading a 2xx reply: response.json(), the candidates check and
\* data.candidates[0].content.parts[0].text.  Either a value is returned
\* or an error is thrown.
ReadReply(r) ==
  CASE r.kind = "ok" -> [threw |-> FALSE, value |-> r.text]
    [] r.kind = "noText" -> [threw |-> FALSE, value |-> Undefined]
    [] OTHER -> [threw |-> TRUE, value |-> Null]

(***************************************************************************)
(* callGeminiWithRetry and the prompt builders.                            *)
(***************************************************************************)
maxTries == 2

\* The characters of a word of a prompt.
Spell(w) ==
  CASE w = "steps" -> <<"s", "t", "e", "p", "s">>
    [] w = "Footsteps" -> <<"F", "o", "o", "t", "s", "t", "e", "p", "s">>
    [] w = "PROCEDURE" -> <<"P", "R", "O", "C", "E", "D", "U", "R", "E">>
    [] w = "ste" -> <<"s", "t", "e">>
    [] OTHER -> <<w>>

RECURSIVE TextOf(_)
\* The characters of a prompt: its words with a space between them.
TextOf(p) ==
  IF p = <<>> THEN <<>>
  ELSE IF Len(p) = 1 THEN Spell(p[1])
  ELSE Spell(p[1]) \o <<" ">> \o TextOf(Tail(p))

\* Case folding of the i flag.
ToLower(c) ==
  CASE c = "C" -> "c" [] c = "D" -> "d" [] c = "E" -> "e" [] c = "F" -> "f"
    [] c = "O" -> "o" [] c = "P" -> "p" [] c = "R" -> "r" [] c = "S" -> "s"
    [] c = "T" -> "t" [] c = "U" -> "u" [] OTHER -> c

\* The alternatives of /step|steps|step-by-step|stepwise|procedure/i
StepAlternatives ==
  {<<"s", "t", "e", "p">>,
   <<"s", "t", "e", "p", "s">>,
   <<"s", "t", "e", "p", "-", "b", "y", "-", "s", "t", "e", "p">>,
   <<"s", "t", "e", "p", "w", "i", "s", "e">>,
   <<"p", "r", "o", "c", "e", "d", "u", "r", "e">>}

\* An unanchored match of the literal pat in text without the i flag.
OccursExact(text, pat) ==
  \E i \in 1..(Len(text) - Len(pat) + 1) :
    \A k \in 1..Len(pat) : text[i + k - 1] = pat[k]

\* An unanchored match of the literal pat in text under the i flag.
Occurs(text, pat) ==
  \E i \in 1..(Len(text) - Len(pat) + 1) :
    \A k \in 1..Len(pat) : ToLower(text[i + k - 1]) = pat[k]

\* Variant: the pattern without the i flag.
ExpectMarkdownListCaseSensitive(p) ==
  IsString(p) /\ \E alt \in StepAlternatives : OccursExact(TextOf(p), alt)

\* /step|steps|step-by-step|stepwise|procedure/i.test(prompt)
ExpectMarkdownList(p) ==
  IsString(p) /\ \E alt \in StepAlternatives : Occurs(TextOf(p), alt)

\* finalPrompt of /api/ask
AskPrompt(p) == IF ExpectMarkdownList(p) THEN p \o <<"LIST_INSTR">> ELSE p
\* prompt of /api/flashcards
FlashPrompt(topic) == <<"FLASH_TEMPLATE">> \o topic
\* quizPrompt of /api/quiz
QuizPrompt(topic) == <<"QUIZ_TEMPLATE">> \o topic \o <<"QUIZ_ONLY_JSON">>
\* the stricter prompt of the handlers' second callGeminiWithRetry
StrictPrompt(p) == p \o <<"STRICT">>

\* Variant: an empty array counts as no array.
AcceptsNonEmpty(exp, text) ==
  \/ exp = "any"
  \/ exp = "json" /\ extractJsonArray(text).ok /\ extractJsonArray(text).val.items # <<>>
  \/ exp = "markdownList" /\ isNumberedMarkdownList(text)

\* The checks of callGeminiWithRetry that end it with `return text`.
Accepts(exp, text) ==
  \/ exp = "any"
  \/ exp = "json" /\ extractJsonArray(text).ok
  \/ exp = "markdownList" /\ isNumberedMarkdownList(text)

\* The strengthened prompt for the next try.
Strengthen(p, exp) ==
  IF exp = "json" THEN p \o <<"FIX_JSON">>
  ELSE IF exp = "markdownList" THEN p \o <<"FIX_LIST">>
  ELSE p \o <<"FIX_ANY">>

\* `lastText = null` in the catch of callGeminiWithRetry.
CaughtText(lt) == Null

\* The compiled validator a structured express handler applies.
Validates(validate, v) ==
  IF validate = "validateQuiz" THEN validateQuiz(v) ELSE validateFlashcards(v)

\* !parsed || !validate(parsed) in the structured express handlers.
Invalid(validate, text) ==
  LET parsed == extractJsonArray(OrEmpty(text))
  IN ~parsed.ok \/ ~Validates(validate, parsed.val)

\* prompt.substring(0, 500) and (response || '').substring(0, 2000)
Substring(str, n) == SubSeq(str, 1, IF Len(str) < n THEN Len(str) ELSE n)

LogEntry(ep, p, resp) ==
  [endpoint |-> ep, prompt |-> Substring(p, 500), response |-> Substring(OrEmpty(resp), 2000)]

(***************************************************************************)
(* State.                                                                  *)
(***************************************************************************)
VARIABLES
  endpoint,     \* the handler serving the request
  method,       \* req.method
  prompt,       \* req.body.prompt or req.body.topic
  pc,           \* where the request is
  attempt,      \* callGeminiAPI: attempt
  lastError,    \* callGeminiAPI: lastError, 0 for null, n for the error of the n-th fetch
  hist,         \* outcomes of the fetches of the current callGeminiAPI invocation
  waitMs,       \* the argument of the sleep in progress
  retryAfter,   \* the retry-after header behind the sleep in progress
  sleepBranch,  \* which branch sleeps: "rate", "catch" or "none"
  apiResult,    \* the value callGeminiAPI returned
  thrown,       \* the error callGeminiAPI threw, 0 for none
  expect,       \* callGeminiWithRetry: options.expect
  curPrompt,    \* callGeminiWithRetry: prompt
  wrAttempt,    \* callGeminiWithRetry: attempt
  lastText,     \* callGeminiWithRetry: lastText
  wrResult,     \* the value callGeminiWithRetry returned
  phase,        \* structured express handlers: 1 before, 2 within the handler's retry
  response,     \* the response field of the reply body
  warning,      \* whether the reply body has a warning field
  status,       \* HTTP status of the reply, 0 while the request is pending
  modelCalls,   \* number of callGeminiAPI invocations of the request
  res1,         \* outcome of the first callGeminiAPI invocation
  res2,         \* outcome of the second callGeminiAPI invocation
  log,          \* logs/bad_responses.log
  allFailed,    \* no fetch of the request has been a well-formed 2xx reply so far
  allOk         \* every fetch of the request has been a well-formed 2xx reply so far

\* Several invocations of the model clients in flight at the same time.
VARIABLES
  cKind,        \* the function each invocation runs
  cPc,          \* each invocation's position, "idle" when it never started
  frames,       \* the storage of the invocations' local variables
  cHist,        \* ghost: the outcomes of each invocation's own fetches
  cResult       \* what each invocation returned, Threw when it threw

\* The browser: one call of a generator of services/api.ts.
VARIABLES
  generator,    \* the generator called
  served,       \* what the fetch of /api/ask will produce
  gPc,          \* "idle", "fetch", "settled" (callGemini is over) or "resolved"
  gText,        \* what callGemini returned, Threw when it threw
  gResult       \* the value the generator's promise resolved to

\* The browser: the state of the AdvancedFlashcards component.
VARIABLES
  flashcards,   \* the deck: the ids of its cards in order
  currentIndex,
  showAnswer,
  mastered,
  difficult,
  studyMode,
  autoPlay,
  timers        \* the pending setTimeout callbacks of markCard: the render each closes over

Invocations == 1..NumInvocations

\* The locals of an invocation that never started.
NoFrame == [attempt |-> 0, lastError |-> 0, prompt |-> <<>>, lastText |-> Null]

reqVars == <<endpoint, method, prompt>>
concVars == <<cKind, cPc, frames, cHist, cResult>>
genVars == <<generator, served, gPc, gText, gResult>>
deckVars == <<flashcards, currentIndex, showAnswer, mastered, difficult, studyMode,
              autoPlay, timers>>
uiVars == <<genVars, deckVars>>
clientVars == <<attempt, lastError, hist, waitMs, retryAfter, sleepBranch, apiResult, thrown>>
wrVars == <<expect, curPrompt, wrAttempt, lastText, wrResult>>
resVars == <<phase, response, warning, status>>
vars == <<endpoint, method, prompt, pc, attempt, lastError, hist, waitMs, retryAfter,
          sleepBranch, apiResult, thrown, expect, curPrompt, wrAttempt, lastText,
          wrResult, phase, response, warning, status, modelCalls, res1, res2, log,
          allFailed, allOk, cKind, cPc, frames, cHist, cResult, generator, served,
          gPc, gText, gResult, flashcards, currentIndex, showAnswer, mastered,
          difficult, studyMode, autoPlay, timers>>

None == <<"NONE">>
Threw == <<"THREW">>
UnknownError == 99

\* No generator has been called.
GenIdle ==
  /\ generator = "generateFlashcards" /\ served = [kind |-> "netErr", response |-> Undefined]
  /\ gPc = "idle" /\ gText = None /\ gResult = None

\* The component as first rendered (AdvancedFlashcards.tsx:6-18).
DeckIdle ==
  /\ flashcards = <<>> /\ currentIndex = 0 /\ showAnswer = FALSE
  /\ mastered = {} /\ difficult = {} /\ studyMode = "standard"
  /\ autoPlay = FALSE /\ timers = <<>>

Init ==
  /\ GenIdle /\ DeckIdle
  /\ endpoint \in Endpoints
  /\ method \in MethodsOf(endpoint)
  /\ prompt \in PromptsOf(endpoint)
  /\ pc = "start"
  /\ attempt = 0 /\ lastError = 0 /\ hist = <<>> /\ waitMs = 0
  /\ retryAfter = Null /\ sleepBranch = "none" /\ apiResult = Null /\ thrown = 0
  /\ expect = "any" /\ curPrompt = <<>> /\ wrAttempt = 0 /\ lastText = Null
  /\ wrResult = Null
  /\ phase = 1 /\ response = Undefined /\ warning = FALSE /\ status = 0
  /\ modelCalls = 0 /\ res1 = None /\ res2 = None /\ log = <<>> /\ allFailed = TRUE
  /\ allOk = TRUE
  /\ cKind = [i \in Invocations |-> "callGeminiAPI"]
  /\ cPc = [i \in Invocations |-> "idle"]
  /\ frames = [i \in Invocations |-> NoFrame]
  /\ cHist = [i \in Invocations |-> <<>>]
  /\ cResult = [i \in Invocations |-> None]

\* A new invocation of callGeminiAPI starts: its locals are fresh.
BeginCall ==
  /\ pc' = "fetch"
  /\ attempt' = 0 /\ lastError' = 0 /\ hist' = <<>> /\ waitMs' = 0
  /\ retryAfter' = Null /\ sleepBranch' = "none" /\ apiResult' = Null /\ thrown' = 0
  /\ modelCalls' = modelCalls + 1

\* The outcome of the current callGeminiAPI invocation is v.
Record(v) ==
  /\ res1' = IF modelCalls = 1 THEN v ELSE res1
  /\ res2' = IF modelCalls = 2 THEN v ELSE res2

\* res.status(code).json({...}) ends the request.
Reply(code, resp, warn) ==
  /\ pc' = "done"
  /\ status' = code /\ response' = resp /\ warning' = warn

(***************************************************************************)
(* The model clients.                                                      *)
(***************************************************************************)
\* One iteration of the while loop of the retrying callGeminiAPI: the fetch
\* and what follows it up to the next await sleep, return or throw.
callGeminiAPIStep(r) ==
  /\ hist' = Append(hist, r.kind)
  /\ LET n == Len(hist) + 1
         rate == r.kind # "neterr" /\ ~ResponseOk(r) /\ RateLimitRetry(r, attempt)
         caught == /\ ~rate
                   /\ (r.kind = "neterr" \/ ~ResponseOk(r) \/ ReadReply(r).threw)
     IN /\ lastError' = IF caught THEN n ELSE lastError
        /\ IF rate
             THEN /\ pc' = "sleep"
                  /\ waitMs' = RateLimitWait(r.header, attempt)
                  /\ retryAfter' = r.header
                  /\ sleepBranch' = "rate"
                  /\ UNCHANGED <<apiResult, thrown, res1, res2>>
           ELSE IF caught /\ CanRetry(attempt)
             THEN /\ pc' = "sleep"
                  /\ waitMs' = BackoffWait(attempt)
                  /\ retryAfter' = Null
                  /\ sleepBranch' = "catch"
                  /\ UNCHANGED <<apiResult, thrown, res1, res2>>
           ELSE IF caught
             THEN /\ pc' = "apiThrew"
                  /\ thrown' = n
                  /\ Record(Threw)
                  /\ UNCHANGED <<waitMs, retryAfter, sleepBranch, apiResult>>
           ELSE /\ pc' = "apiReturned"
                /\ apiResult' = ReadReply(r).value
                /\ Record(ReadReply(r).value)
                /\ UNCHANGED <<waitMs, retryAfter, sleepBranch, thrown>>
  /\ UNCHANGED <<attempt, modelCalls, log>>
  /\ allFailed' = (allFailed /\ r.kind # "ok")
  /\ allOk' = (allOk /\ r.kind = "ok")
  /\ UNCHANGED <<uiVars, concVars, reqVars, wrVars, resVars>>

\* The retrying callGeminiAPI of the serverless /api/ask and /api/flashcards
\* handlers performs its next fetch, with any outcome.
callGeminiAPI ==
  /\ pc = "fetch"
  /\ Retrying(endpoint)
  /\ \E r \in RemoteReplies(endpoint) : callGeminiAPIStep(r)

\* The sleep ends: attempt++, continue, and the loop condition; the throw
\* after the loop when the condition fails.
sleep ==
  /\ pc = "sleep"
  /\ attempt' = NextAttempt(attempt)
  /\ waitMs' = 0 /\ retryAfter' = Null /\ sleepBranch' = "none"
  /\ IF LoopCond(attempt')
       THEN /\ pc' = "fetch"
            /\ UNCHANGED <<thrown, res1, res2>>
       ELSE /\ pc' = "apiThrew"
            /\ thrown' = IF lastError # 0 THEN lastError ELSE UnknownError
            /\ Record(Threw)
  /\ UNCHANGED <<lastError, hist, apiResult, modelCalls, log, allFailed, allOk>>
  /\ UNCHANGED <<uiVars, concVars, reqVars, wrVars, resVars>>

\* The callGeminiAPI without retries: one fetch, then return or throw.
SingleShot(r) ==
  /\ hist' = Append(hist, r.kind)
  /\ IF r.kind = "neterr" \/ ~ResponseOk(r) \/ ReadReply(r).threw
       THEN /\ pc' = "apiThrew"
            /\ thrown' = Len(hist) + 1
            /\ Record(Threw)
            /\ UNCHANGED apiResult
       ELSE /\ pc' = "apiReturned"
            /\ apiResult' = ReadReply(r).value
            /\ Record(ReadReply(r).value)
            /\ UNCHANGED thrown
  /\ UNCHANGED <<attempt, lastError, waitMs, retryAfter, sleepBranch, modelCalls, log>>
  /\ allFailed' = (allFailed /\ r.kind # "ok")
  /\ allOk' = (allOk /\ r.kind = "ok")
  /\ UNCHANGED <<uiVars, concVars, reqVars, wrVars, resVars>>

\* callGeminiAPI of the express server.
callGeminiAPIExpress ==
  /\ pc = "fetch"
  /\ Express(endpoint)
  /\ \E r \in RemoteReplies(endpoint) : SingleShot(r)

\* callGeminiAPI of the serverless flashcards and quiz handlers.
callGeminiAPISimple ==
  /\ pc = "fetch"
  /\ Simple(endpoint)
  /\ \E r \in RemoteReplies(endpoint) : SingleShot(r)

\* callGeminiWithRetry is entered with prompt p and options.expect exp, up
\* to its first await callGeminiAPI.
EnterWithRetry(p, exp) ==
  /\ curPrompt' = p /\ expect' = exp
  /\ wrAttempt' = 1 /\ lastText' = Null /\ wrResult' = Null
  /\ BeginCall

\* callGeminiWithRetry resumes after callGeminiAPI returned or threw: the
\* rest of the loop body, the loop step, and the return after the loop.
callGeminiWithRetry ==
  /\ pc \in {"apiReturned", "apiThrew"}
  /\ Express(endpoint)
  /\ LET ok == pc = "apiReturned"
         text == apiResult
         lt == IF ok THEN text ELSE CaughtText(lastText)
         accepted == ok /\ Accepts(expect, text)
         again == ~accepted /\ wrAttempt < maxTries
     IN /\ lastText' = lt
        /\ curPrompt' = IF ok /\ again THEN Strengthen(curPrompt, expect) ELSE curPrompt
        /\ IF again
             THEN /\ wrAttempt' = wrAttempt + 1
                  /\ BeginCall
                  /\ UNCHANGED wrResult
             ELSE /\ pc' = "wrReturned"
                  /\ wrResult' = lt
                  /\ UNCHANGED <<wrAttempt, clientVars, modelCalls>>
  /\ UNCHANGED <<expect, res1, res2, log, allFailed, allOk>>
  /\ UNCHANGED <<uiVars, concVars, reqVars, resVars>>

(***************************************************************************)
(* The handlers.                                                           *)
(***************************************************************************)
ReplyOnly(code, resp, warn) ==
  /\ Reply(code, resp, warn)
  /\ UNCHANGED <<clientVars, modelCalls>>

\* Variant: only a missing prompt is rejected.
RejectsMissingOnly(p) == p = Undefined

\* if (!prompt) / if (!topic)
Rejects(p) == ~Truthy(p)

\* A serverless handler up to its await callGeminiAPI(prompt).
ServerlessStart ==
  /\ pc = "start"
  /\ IF method = "OPTIONS" THEN ReplyOnly(200, Undefined, FALSE)
     ELSE IF method # "POST" THEN ReplyOnly(405, Undefined, FALSE)
     ELSE IF Rejects(prompt) THEN ReplyOnly(400, Undefined, FALSE)
     ELSE BeginCall /\ UNCHANGED <<response, warning, status>>
  /\ UNCHANGED <<uiVars, concVars, reqVars, wrVars, phase, res1, res2, log, allFailed, allOk>>

\* A serverless free-text handler after callGeminiAPI returned or threw.
ServerlessAskFinish ==
  /\ pc \in {"apiReturned", "apiThrew"}
  /\ IF pc = "apiReturned" THEN ReplyOnly(200, apiResult, FALSE)
     ELSE ReplyOnly(500, Undefined, FALSE)
  /\ UNCHANGED <<uiVars, concVars, reqVars, wrVars, phase, res1, res2, log, allFailed, allOk>>

\* A serverless structured handler after callGeminiAPI returned or threw.
ServerlessJsonFinish ==
  /\ pc \in {"apiReturned", "apiThrew"}
  /\ IF pc = "apiReturned"
       THEN ReplyOnly(200, apiResult, ~extractJsonArray(OrEmpty(apiResult)).ok)
       ELSE ReplyOnly(500, Undefined, FALSE)
  /\ UNCHANGED <<uiVars, concVars, reqVars, wrVars, phase, res1, res2, log, allFailed, allOk>>

AskRetrying_Start == endpoint = "askRetrying" /\ ServerlessStart
AskRetrying_Finish == endpoint = "askRetrying" /\ ServerlessAskFinish
FlashRetrying_Start == endpoint = "flashRetrying" /\ ServerlessStart
FlashRetrying_Finish == endpoint = "flashRetrying" /\ ServerlessJsonFinish
FlashSimple_Start == endpoint = "flashSimple" /\ ServerlessStart
FlashSimple_Finish == endpoint = "flashSimple" /\ ServerlessJsonFinish
QuizSimple_Start == endpoint = "quizSimple" /\ ServerlessStart
QuizSimple_Finish == endpoint = "quizSimple" /\ ServerlessJsonFinish

\* An express route up to its first await callGeminiWithRetry(p, {expect}).
ExpressStart(p, exp) ==
  /\ pc = "start"
  /\ IF Rejects(prompt)
       THEN /\ ReplyOnly(400, Undefined, FALSE)
            /\ UNCHANGED wrVars
       ELSE /\ EnterWithRetry(p, exp)
            /\ UNCHANGED <<response, warning, status>>
  /\ UNCHANGED <<uiVars, concVars, reqVars, phase, res1, res2, log, allFailed, allOk>>

\* A structured express route after its first callGeminiWithRetry returned.
StructuredFirst(validate, ep, p) ==
  /\ pc = "wrReturned"
  /\ phase = 1
  /\ IF Invalid(validate, wrResult)
       THEN /\ log' = Append(log, LogEntry(ep, p, wrResult))
            /\ response' = wrResult
            /\ phase' = 2
            /\ EnterWithRetry(StrictPrompt(p), "json")
            /\ UNCHANGED <<warning, status>>
       ELSE /\ ReplyOnly(200, wrResult, FALSE)
            /\ UNCHANGED <<wrVars, phase, log>>
  /\ UNCHANGED <<uiVars, concVars, reqVars, res1, res2, allFailed, allOk>>

\* A structured express route after its second callGeminiWithRetry returned.
StructuredRetry(validate) ==
  /\ pc = "wrReturned"
  /\ phase = 2
  /\ IF ~Invalid(validate, wrResult)
       THEN ReplyOnly(200, wrResult, FALSE)
       ELSE ReplyOnly(200, response, TRUE)
  /\ UNCHANGED <<uiVars, concVars, reqVars, wrVars, phase, res1, res2, log, allFailed, allOk>>

AskExpress_Start ==
  /\ endpoint = "askExpress"
  /\ ExpressStart(AskPrompt(prompt),
                  IF ExpectMarkdownList(prompt) THEN "markdownList" ELSE "any")

AskExpress_Finish ==
  /\ endpoint = "askExpress"
  /\ pc = "wrReturned"
  /\ ReplyOnly(200, wrResult, FALSE)
  /\ UNCHANGED <<uiVars, concVars, reqVars, wrVars, phase, res1, res2, log, allFailed, allOk>>

FlashExpress_Start ==
  /\ endpoint = "flashExpress"
  /\ ExpressStart(FlashPrompt(prompt), "json")

FlashExpress_First ==
  /\ endpoint = "flashExpress"
  /\ StructuredFirst("validateFlashcards", "/api/flashcards", FlashPrompt(prompt))

FlashExpress_Retry ==
  /\ endpoint = "flashExpress"
  /\ StructuredRetry("validateFlashcards")

QuizExpress_Start ==
  /\ endpoint = "quizExpress"
  /\ ExpressStart(QuizPrompt(prompt), "json")

QuizExpress_First ==
  /\ endpoint = "quizExpress"
  /\ StructuredFirst("validateQuiz", "/api/quiz", QuizPrompt(prompt))

QuizExpress_Retry ==
  /\ endpoint = "quizExpress"
  /\ StructuredRetry("validateQuiz")

Next ==
  \/ callGeminiAPI
  \/ sleep
  \/ callGeminiAPIExpress
  \/ callGeminiAPISimple
  \/ callGeminiWithRetry
  \/ AskRetrying_Start
  \/ AskRetrying_Finish
  \/ FlashRetrying_Start
  \/ FlashRetrying_Finish
  \/ FlashSimple_Start
  \/ FlashSimple_Finish
  \/ QuizSimple_Start
  \/ QuizSimple_Finish
  \/ AskExpress_Start
  \/ AskExpress_Finish
  \/ FlashExpress_Start
  \/ FlashExpress_First
  \/ FlashExpress_Retry
  \/ QuizExpress_Start
  \/ QuizExpress_First
  \/ QuizExpress_Retry

Spec == Init /\ [][Next]_vars

\* A step of a model client or of callGeminiWithRetry.  At most one of them
\* is enabled at a time: the request is at one await.
ClientStep ==
  \/ callGeminiAPI
  \/ sleep
  \/ callGeminiAPIExpress
  \/ callGeminiAPISimple
  \/ callGeminiWithRetry

\* Every fetch settles, every sleep timer fires, and the continuation of an
\* await runs once the awaited promise has settled.
FairSpec == Init /\ [][Next]_vars /\ WF_vars(ClientStep)

TypeOK ==
  /\ pc \in {"start", "fetch", "sleep", "apiReturned", "apiThrew", "wrReturned", "done"}
  /\ status \in {0, 200, 400, 405, 500}
  /\ attempt \in 0..maxRetries
  /\ wrAttempt \in 0..maxTries
  /\ phase \in {1, 2}

(***************************************************************************)
(* Concurrent invocations: every request of the Node process runs its own  *)
(* invocation of callGeminiAPI or callGeminiWithRetry, and the invocations *)
(* interleave at their awaits.                                             *)
(***************************************************************************)
Kinds == {"callGeminiAPI", "callGeminiWithRetry"}

\* The prompt argument of invocation i.
ConcPrompt(i) == <<"steps">> \o Chatter(i)

\* options.expect of the concurrent callGeminiWithRetry invocations.
ConcExpect == "markdownList"

\* Outcomes of the fetches of concurrent invocations.
ConcReplies ==
  {[kind |-> "ok", text |-> <<"1", ".", " ", "x">>, header |-> Null],
   [kind |-> "ok", text |-> <<"x">>, header |-> Null],
   [kind |-> "s429", text |-> <<>>, header |-> Null],
   [kind |-> "neterr", text |-> <<>>, header |-> Null]}

\* Variant: the locals are module-level variables that all invocations share.
SharedFrame(i) == 1

\* `let attempt`, `let lastError`, `let lastText` and the parameter `prompt`
\* are bindings of the function body: each invocation has its own.
FrameOf(i) == i

\* The locals of an invocation at its first fetch.
InitialLocal(kind, p) ==
  [pc |-> "fetch", attempt |-> IF kind = "callGeminiAPI" THEN 0 ELSE 1,
   lastError |-> 0, prompt |-> p, lastText |-> Null, result |-> None]

\* The retrying callGeminiAPI after its n-th fetch had outcome r.
ApiFetched(loc, r, n) ==
  LET rate == r.kind # "neterr" /\ ~ResponseOk(r) /\ RateLimitRetry(r, loc.attempt)
      caught == /\ ~rate
                /\ (r.kind = "neterr" \/ ~ResponseOk(r) \/ ReadReply(r).threw)
  IN IF rate THEN [loc EXCEPT !.pc = "sleep"]
     ELSE IF caught /\ CanRetry(loc.attempt)
       THEN [loc EXCEPT !.pc = "sleep", !.lastError = n]
     ELSE IF caught
       THEN [loc EXCEPT !.pc = "threw", !.lastError = n, !.result = Threw]
     ELSE [loc EXCEPT !.pc = "returned", !.result = ReadReply(r).value]

\* The retrying callGeminiAPI after its sleep.
ApiWoke(loc) ==
  LET a == NextAttempt(loc.attempt)
  IN IF LoopCond(a) THEN [loc EXCEPT !.pc = "fetch", !.attempt = a]
     ELSE [loc EXCEPT !.pc = "threw", !.attempt = a, !.result = Threw]

\* callGeminiWithRetry after the fetch of its callGeminiAPI had outcome r.
WithRetryFetched(loc, r) ==
  LET threw == r.kind = "neterr" \/ ~ResponseOk(r) \/ ReadReply(r).threw
      text == ReadReply(r).value
      lt == IF threw THEN CaughtText(loc.lastText) ELSE text
      accepted == ~threw /\ Accepts(ConcExpect, text)
      again == ~accepted /\ loc.attempt < maxTries
  IN IF again
       THEN [loc EXCEPT !.lastText = lt, !.attempt = @ + 1,
                        !.prompt = IF threw THEN @ ELSE Strengthen(@, ConcExpect)]
       ELSE [loc EXCEPT !.lastText = lt, !.pc = "returned", !.result = lt]

\* What invocation i reads: its position and the locals of its frame.
Local(i) ==
  LET f == frames[FrameOf(i)]
  IN [pc |-> cPc[i], attempt |-> f.attempt, lastError |-> f.lastError,
      prompt |-> f.prompt, lastText |-> f.lastText, result |-> cResult[i]]

\* Invocation i writes its locals.
Store(i, loc) ==
  /\ frames' = [frames EXCEPT ![FrameOf(i)] =
                  [attempt |-> loc.attempt, lastError |-> loc.lastError,
                   prompt |-> loc.prompt, lastText |-> loc.lastText]]
  /\ cPc' = [cPc EXCEPT ![i] = loc.pc]
  /\ cResult' = [cResult EXCEPT ![i] = loc.result]

soloVars == <<endpoint, method, prompt, pc, attempt, lastError, hist, waitMs, retryAfter,
              sleepBranch, apiResult, thrown, expect, curPrompt, wrAttempt, lastText,
              wrResult, phase, response, warning, status, modelCalls, res1, res2, log,
              allFailed, allOk>>

\* A request arrives and its invocation runs up to its first fetch.
Conc_Enter ==
  /\ \E i \in Invocations :
       /\ cPc[i] = "idle"
       /\ Store(i, InitialLocal(cKind[i], ConcPrompt(i)))
  /\ UNCHANGED <<cKind, cHist, soloVars, uiVars>>

\* A fetch of a retrying callGeminiAPI invocation completes.
Conc_callGeminiAPI ==
  /\ \E i \in Invocations :
       /\ cPc[i] = "fetch" /\ cKind[i] = "callGeminiAPI"
       /\ \E r \in ConcReplies :
            /\ Store(i, ApiFetched(Local(i), r, Len(cHist[i]) + 1))
            /\ cHist' = [cHist EXCEPT ![i] = Append(@, r)]
  /\ UNCHANGED <<cKind, soloVars, uiVars>>

\* The sleep of a retrying callGeminiAPI invocation ends.
Conc_sleep ==
  /\ \E i \in Invocations :
       /\ cPc[i] = "sleep"
       /\ Store(i, ApiWoke(Local(i)))
  /\ UNCHANGED <<cKind, cHist, soloVars, uiVars>>

\* The fetch of the callGeminiAPI of a callGeminiWithRetry invocation completes.
Conc_callGeminiWithRetry ==
  /\ \E i \in Invocations :
       /\ cPc[i] = "fetch" /\ cKind[i] = "callGeminiWithRetry"
       /\ \E r \in ConcReplies :
            /\ Store(i, WithRetryFetched(Local(i), r))
            /\ cHist' = [cHist EXCEPT ![i] = Append(@, r)]
  /\ UNCHANGED <<cKind, soloVars, uiVars>>

\* No invocation has been entered yet.
ConcInit ==
  /\ GenIdle /\ DeckIdle
  /\ cKind \in [Invocations -> Kinds]
  /\ cPc = [i \in Invocations |-> "idle"]
  /\ frames = [i \in Invocations |-> NoFrame]
  /\ cHist = [i \in Invocations |-> <<>>]
  /\ cResult = [i \in Invocations |-> None]
  /\ endpoint = "askRetrying" /\ method = "POST" /\ prompt = <<"x">>
  /\ pc = "start"
  /\ attempt = 0 /\ lastError = 0 /\ hist = <<>> /\ waitMs = 0
  /\ retryAfter = Null /\ sleepBranch = "none" /\ apiResult = Null /\ thrown = 0
  /\ expect = "any" /\ curPrompt = <<>> /\ wrAttempt = 0 /\ lastText = Null
  /\ wrResult = Null
  /\ phase = 1 /\ response = Undefined /\ warning = FALSE /\ status = 0
  /\ modelCalls = 0 /\ res1 = None /\ res2 = None /\ log = <<>> /\ allFailed = TRUE
  /\ allOk = TRUE

ConcNext ==
  \/ Conc_Enter
  \/ Conc_callGeminiAPI
  \/ Conc_sleep
  \/ Conc_callGeminiWithRetry

ConcSpec == ConcInit /\ [][ConcNext]_vars

(***************************************************************************)
(* The browser: services/api.ts.                                           *)
(***************************************************************************)
MaxCards == 2

\* 'Sorry, I could not generate a response.'
Sorry == <<"SORRY">>

\* ${topic}
Topic == <<"t">>

\* The text of one flashcard object with question q and answer a.
CardText(q, a) == <<"{Q:", "\"">> \o q \o <<"\"", ",A:", "\"">> \o a \o <<"\"", "}">>

\* One question (x) and answers: x, 1., x1.x, 1)x and 2
CardTexts ==
  {CardText(<<"x">>, a) : a \in {<<"x">>, <<"1", ".">>, <<"x", "1", ".", "x">>,
                                 <<"1", ")", "x">>, <<"2">>}}
  \cup {CardText(<<"y">>, <<"y">>), CardText(<<"1", ".", "x">>, <<"x">>)}

RECURSIVE Joined(_)
\* The items of an array text, separated by commas.
Joined(cards) ==
  IF Len(cards) = 0 THEN <<>>
  ELSE IF Len(cards) = 1 THEN cards[1]
  ELSE cards[1] \o <<",">> \o Joined(Tail(cards))

\* Replies of /api/ask that are arrays of flashcard objects.
CardArrays == {<<"[">> \o Joined(cs) \o <<"]">> : cs \in SeqsUpTo(CardTexts, MaxCards)}

\* data.response: arrays of cards and of macro objects, arrays of other
\* values, an array within chatter, texts without a span, spans that do not
\* parse, and the falsy values.
ClientReplies ==
  CardArrays
  \cup {<<"[", "F", "]">>, <<"[", "Q", "]">>, <<"[", "null", "]">>, <<"[", "1", ".", "2", "]">>,
        <<"x", "[", "F", ",", "F", "]", "x">>, <<"x">>, <<"1", ".", "x", " ", "2", ".", "x">>,
        <<"[", "x", "]">>, <<"[", "F">>, <<"]", "[">>,
        <<>>, Null, Undefined}

\* What the fetch of /api/ask produces: a 2xx reply whose body is
\* {response}, a non-2xx reply, a rejected fetch, or a 2xx reply whose body
\* is not JSON.
Served ==
  {[kind |-> "ok", response |-> t] : t \in ClientReplies}
  \cup {[kind |-> k, response |-> Undefined] : k \in {"httpError", "netErr", "badBody"}}

\* callGemini: the string it returns, Threw when it throws.
callGemini(sv) ==
  IF sv.kind # "ok" THEN Threw
  ELSE IF Truthy(sv.response) THEN sv.response ELSE Sorry

RECURSIVE SpaceAfterMarker(_, _, _)
\* s.replace(/(\d+)([\.\)])(?=\S)/g, '$1$2 ')
SpaceAfterMarker(s, i, out) ==
  IF i > Len(s) THEN out
  ELSE IF /\ s[i] \in {".", ")"} /\ i > 1 /\ i < Len(s)
          /\ s[i - 1] \in Digits /\ s[i + 1] \notin Ws
    THEN SpaceAfterMarker(s, i + 1, out \o <<s[i], " ">>)
  ELSE SpaceAfterMarker(s, i + 1, Append(out, s[i]))

\* Whether /\d+\./ matches at i, and the index of its dot.
NumberDot(s, i) ==
  The({[hit |-> e > i /\ e <= Len(s) /\ s[e] = ".", dot |-> e]
       : e \in {IF i > Len(s) THEN i ELSE DigitsEnd(s, i)}})

RECURSIVE NewlineBeforeStep(_, _, _)
\* s.replace(/([^\n])(?:\s*)(\d+\.)/g, '$1\n$2'): the leftmost match, then
\* on from its end.
NewlineBeforeStep(s, i, out) ==
  IF i > Len(s) THEN out
  ELSE The({IF s[i] # "\n" /\ m.hit
              THEN NewlineBeforeStep(s, m.dot + 1,
                                     out \o <<s[i], "\n">> \o SubSeq(s, k, m.dot))
              ELSE NewlineBeforeStep(s, i + 1, Append(out, s[i]))
            : k \in {SkipWs(s, i + 1)}, m \in {NumberDot(s, SkipWs(s, i + 1))}})

RECURSIVE BreakBeforeNumbers(_, _, _)
\* s.replace(/(\d+\.)/g, '\n$1')
BreakBeforeNumbers(s, i, out) ==
  IF i > Len(s) THEN out
  ELSE The({IF m.hit
              THEN BreakBeforeNumbers(s, m.dot + 1, out \o <<"\n">> \o SubSeq(s, i, m.dot))
              ELSE BreakBeforeNumbers(s, i + 1, Append(out, s[i]))
            : m \in {NumberDot(s, i)}})

RECURSIVE CollapseNewlines(_, _, _)
\* s.replace(/\n{2,}/g, '\n\n')
CollapseNewlines(s, i, out) ==
  IF i > Len(s) THEN out
  ELSE IF s[i] = "\n" /\ Len(out) >= 2 /\ out[Len(out)] = "\n" /\ out[Len(out) - 1] = "\n"
    THEN CollapseNewlines(s, i + 1, out)
  ELSE CollapseNewlines(s, i + 1, Append(out, s[i]))

cleanNumberedSteps(text) ==
  IF ~Truthy(text) THEN text
  ELSE Trim(CollapseNewlines(
              BreakBeforeNumbers(
                NewlineBeforeStep(SpaceAfterMarker(text, 1, <<>>), 1, <<>>), 1, <<>>),
              1, <<>>))

\* {...card}: the own properties of an object; null and a number have none.
Spread(v) == IF v.t = "obj" THEN v.f ELSE <<>>

\* {...f, id}
WithId(f, id) == [k \in DOMAIN f \cup {"id"} |-> IF k = "id" THEN JStr(id) ELSE f[k]]

JUndefined == [t |-> "undefined"]

\* q.name
Field(v, name) == IF v.t = "obj" /\ name \in DOMAIN v.f THEN v.f[name] ELSE JUndefined

\* The outcome of a block of code: the value it produced, or a throw.
Value(v) == [threw |-> FALSE, val |-> v]
Throws == [threw |-> TRUE, val |-> <<>>]

\* Variant: an error thrown in the try block leaves the function.
Uncaught(outcome, placeholder) == outcome

\* try { ... } catch (error) { return placeholder }
Caught(outcome, placeholder) == IF outcome.threw THEN Value(placeholder) ELSE outcome

\* The try block of the three generators up to the map over the parsed
\* array: callGemini or JSON.parse throws, or there is no span, or the
\* span parses to an array.
ParsedReply(resp) ==
  IF resp = Threw THEN [kind |-> "threw", items |-> <<>>]
  ELSE The({IF ~m.found THEN [kind |-> "noSpan", items |-> <<>>]
            ELSE The({IF v.ok THEN [kind |-> "array", items |-> v.val.items]
                      ELSE [kind |-> "threw", items |-> <<>>]
                      : v \in {JSONParse(SubSeq(cleaned, m.from, m.to))}})
            : cleaned \in {cleanNumberedSteps(resp)}, m \in {BracketSpan(cleanNumberedSteps(resp))}})

\* An array holding one item with the given id and fields.
Placeholder(id, f) == <<JObj(WithId(f, <<id>>))>>

generateFlashcards(topic, resp) ==
  Caught(
    The({IF arr.kind = "threw" THEN Throws
         ELSE IF arr.kind = "noSpan"
           THEN Value(Placeholder("fallback",
                  [question |-> JStr(<<"What is ">> \o topic \o <<"?">>),
                   answer |-> JStr(Substring(resp, 200) \o <<"...">>)]))
         ELSE Value([i \in 1..Len(arr.items) |->
                       JObj(WithId(Spread(arr.items[i]), <<"flashcard", i - 1>>))])
         : arr \in {ParsedReply(resp)}}),
    Placeholder("error",
      [question |-> JStr(<<"Tell me about ">> \o topic),
       answer |-> JStr(<<"Sorry, I could not generate flashcards at this time. Please try again.">>)]))

generateQuiz(topic, resp) ==
  Caught(
    The({IF arr.kind = "threw" THEN Throws
         ELSE IF arr.kind = "noSpan"
           THEN Value(Placeholder("fallback",
                  [question |-> JStr(<<"What is the most important concept in ">> \o topic \o <<"?">>),
                   options |-> JArr(<<JStr(<<"Concept A">>), JStr(<<"Concept B">>),
                                      JStr(<<"Concept C">>), JStr(<<"Concept D">>)>>),
                   correctAnswer |-> JStr(<<"Concept A">>),
                   explanation |-> JStr(<<"This is a fallback question. Please try generating the quiz again.">>)]))
         ELSE Value([i \in 1..Len(arr.items) |->
                       JObj(WithId(Spread(arr.items[i]), <<"quiz", i - 1>>))])
         : arr \in {ParsedReply(resp)}}),
    Placeholder("error",
      [question |-> JStr(<<"Sorry, could not generate quiz for ">> \o topic),
       options |-> JArr(<<JStr(<<"Try again">>), JStr(<<"Check connection">>),
                          JStr(<<"Refresh page">>), JStr(<<"Contact support">>)>>),
       correctAnswer |-> JStr(<<"Try again">>),
       explanation |-> JStr(<<"There was an error generating the quiz. Please try again.">>)]))

\* q.question and q.answer throw a TypeError when q is null.
generateCompanyQuestions(topic, resp) ==
  Caught(
    The({IF arr.kind = "threw" THEN Throws
         ELSE IF arr.kind = "noSpan"
           THEN Value(Placeholder("fallback",
                  [question |-> JStr(<<"What is the most important concept in ">> \o topic \o <<"?">>),
                   explanation |-> JStr(<<"This is a fallback explanation. Please try generating the questions again.">>)]))
         ELSE IF \E i \in 1..Len(arr.items) : arr.items[i].t = "null" THEN Throws
         ELSE Value([i \in 1..Len(arr.items) |->
                       JObj(WithId([question |-> Field(arr.items[i], "question"),
                                    explanation |-> Field(arr.items[i], "answer")],
                                   <<"company", i - 1>>))])
         : arr \in {ParsedReply(resp)}}),
    Placeholder("error",
      [question |-> JStr(<<"Sorry, could not generate questions for ">> \o topic),
       explanation |-> JStr(<<"There was an error generating the questions. Please try again.">>)]))

Generators == {"generateFlashcards", "generateQuiz", "generateCompanyQuestions"}

\* A generator is called and runs up to the fetch of callGemini.
Gen_Enter ==
  /\ gPc = "idle"
  /\ generator' \in Generators
  /\ gPc' = "fetch"
  /\ UNCHANGED <<served, gText, gResult, deckVars, concVars, soloVars>>

\* The fetch of callGemini settles and callGemini returns or throws.
Gen_callGemini ==
  /\ gPc = "fetch"
  /\ \E sv \in Served :
       /\ served' = sv
       /\ gText' = callGemini(sv)
  /\ gPc' = "settled"
  /\ UNCHANGED <<generator, gResult, deckVars, concVars, soloVars>>

\* The generator resumes after await callGemini and its promise settles.
GenFinish(value) ==
  /\ gPc = "settled"
  /\ gResult' = value
  /\ gPc' = "resolved"
  /\ UNCHANGED <<generator, served, gText, deckVars, concVars, soloVars>>

Gen_generateFlashcards ==
  generator = "generateFlashcards" /\ GenFinish(generateFlashcards(Topic, gText))

Gen_generateQuiz ==
  generator = "generateQuiz" /\ GenFinish(generateQuiz(Topic, gText))

Gen_generateCompanyQuestions ==
  generator = "generateCompanyQuestions" /\ GenFinish(generateCompanyQuestions(Topic, gText))

\* Nothing but the page is running.
GenInit == ConcInit /\ cKind = [i \in Invocations |-> "callGeminiAPI"]

GenNext ==
  \/ Gen_Enter
  \/ Gen_callGemini
  \/ Gen_generateFlashcards
  \/ Gen_generateQuiz
  \/ Gen_generateCompanyQuestions

GenSpec == GenInit /\ [][GenNext]_vars

(***************************************************************************)
(* The browser: components/AdvancedFlashcards.tsx.                         *)
(***************************************************************************)
DeckSize == 2
MaxTimers == 2

StudyModes == {"standard", "spaced", "shuffle"}

\* What the functions of one render close over, as far as nextCard reads it.
Render == [currentIndex |-> currentIndex, flashcards |-> flashcards,
           difficult |-> difficult, studyMode |-> studyMode]

\* flashcards.filter(card => difficult.has(card.id || ''))
DifficultCards(r) == SelectSeq(r.flashcards, LAMBDA id : id \in r.difficult)

\* nextCard as defined by the render r: the tests read r, the functional
\* update setCurrentIndex(prev => prev + 1) reads the current state.
nextCard(r) ==
  IF r.currentIndex < Len(r.flashcards) - 1
    THEN /\ currentIndex' = currentIndex + 1
         /\ showAnswer' = FALSE
         /\ UNCHANGED flashcards
  ELSE IF r.studyMode = "spaced" /\ Len(DifficultCards(r)) > 0
    THEN /\ flashcards' = DifficultCards(r)
         /\ currentIndex' = 0
         /\ showAnswer' = FALSE
  ELSE UNCHANGED <<flashcards, currentIndex, showAnswer>>

\* generateCards has loaded a deck: the cards get distinct ids and the
\* session starts over.
Deck_generateCards ==
  /\ flashcards = <<>> /\ timers = <<>>
  /\ \E n \in 1..DeckSize : flashcards' = [i \in 1..n |-> i]
  /\ currentIndex' = 0 /\ showAnswer' = FALSE
  /\ mastered' = {} /\ difficult' = {}
  /\ UNCHANGED <<studyMode, autoPlay, timers, genVars, concVars, soloVars>>

\* The study mode is selected before the deck is generated.
Deck_setStudyMode ==
  /\ flashcards = <<>>
  /\ \E m \in StudyModes \ {studyMode} : studyMode' = m
  /\ UNCHANGED <<flashcards, currentIndex, showAnswer, mastered, difficult, autoPlay,
                 timers, genVars, concVars, soloVars>>

\* The card is clicked.
Deck_flipCard ==
  /\ flashcards # <<>>
  /\ showAnswer' = ~showAnswer
  /\ UNCHANGED <<flashcards, currentIndex, mastered, difficult, studyMode, autoPlay,
                 timers, genVars, concVars, soloVars>>

\* The auto-play button is clicked.
Deck_setAutoPlay ==
  /\ flashcards # <<>>
  /\ autoPlay' = ~autoPlay
  /\ UNCHANGED <<flashcards, currentIndex, showAnswer, mastered, difficult, studyMode,
                 timers, genVars, concVars, soloVars>>

\* One of the two mark buttons, shown with the answer, is clicked: the sets
\* are updated and nextCard of this render is scheduled.
Deck_markCard ==
  /\ flashcards # <<>> /\ showAnswer
  /\ currentIndex + 1 \in DOMAIN flashcards
  /\ Len(timers) < MaxTimers
  /\ \E type \in {"mastered", "difficult"} :
       LET cardId == flashcards[currentIndex + 1]
       IN IF type = "mastered"
            THEN /\ mastered' = mastered \cup {cardId}
                 /\ difficult' = difficult \ {cardId}
            ELSE /\ difficult' = difficult \cup {cardId}
                 /\ mastered' = mastered \ {cardId}
  /\ timers' = Append(timers, Render)
  /\ UNCHANGED <<flashcards, currentIndex, showAnswer, studyMode, autoPlay,
                 genVars, concVars, soloVars>>

\* The oldest pending callback of markCard runs, 500 ms after its click.
Deck_timer ==
  /\ timers # <<>>
  /\ nextCard(Head(timers))
  /\ timers' = Tail(timers)
  /\ UNCHANGED <<mastered, difficult, studyMode, autoPlay, genVars, concVars, soloVars>>

\* The interval of the auto-play effect ticks.  The effect is set up again
\* whenever autoPlay, flashcards.length, showAnswer or currentIndex change,
\* and the sets only change while the answer is shown, so the tick runs
\* nextCard of the current render.
Deck_autoPlay ==
  /\ autoPlay /\ Len(flashcards) > 0 /\ ~showAnswer
  /\ nextCard(Render)
  /\ UNCHANGED <<mastered, difficult, studyMode, autoPlay, timers, genVars, concVars, soloVars>>

\* The Next button is clicked.
Deck_nextCard ==
  /\ flashcards # <<>>
  /\ ~(currentIndex = Len(flashcards) - 1 /\ studyMode # "spaced")
  /\ nextCard(Render)
  /\ UNCHANGED <<mastered, difficult, studyMode, autoPlay, timers, genVars, concVars, soloVars>>

\* The Previous button is clicked.
Deck_prevCard ==
  /\ flashcards # <<>>
  /\ currentIndex > 0
  /\ currentIndex' = currentIndex - 1
  /\ showAnswer' = FALSE
  /\ UNCHANGED <<flashcards, mastered, difficult, studyMode, autoPlay, timers,
                 genVars, concVars, soloVars>>

\* The component as first rendered; nothing else is running.
DeckInit == GenInit

DeckNext ==
  \/ Deck_generateCards
  \/ Deck_setStudyMode
  \/ Deck_flipCard
  \/ Deck_setAutoPlay
  \/ Deck_markCard
  \/ Deck_timer
  \/ Deck_autoPlay
  \/ Deck_nextCard
  \/ Deck_prevCard

DeckSpec == DeckInit /\ [][DeckNext]_vars

(***************************************************************************)
(* Properties.                                                             *)
(***************************************************************************)
Last(q) == q[Len(q)]

\* v is a text that a callGeminiAPI invocation returned.
IsText(v) == v \notin {None, Threw, Null, Undefined}

\* The schema of a structured endpoint.
SchemaOk(e, v) == IF IsQuiz(e) THEN validateQuiz(v) ELSE validateFlashcards(v)

\* The span from the first "[" to the last "]" of t is a JSON array that
\* satisfies the schema of e.
ValidSpan(e, t) ==
  LET parsed == extractJsonArray(t) IN parsed.ok /\ SchemaOk(e, parsed.val)

\* Some substring of t is a JSON array that satisfies the schema of e.
ContainsValidArray(e, t) ==
  \E i \in 1..Len(t) : \E j \in i..Len(t) :
    LET parsed == JSONParse(SubSeq(t, i, j))
    IN parsed.ok /\ parsed.val.t = "arr" /\ SchemaOk(e, parsed.val)

\* Number of numbered lines of a text.
NumberedLineCount(t) ==
  LET raw == SplitLines(t, 1, <<>>)
  IN Cardinality({i \in 1..Len(raw) : IsNumberedLine(Trim(raw[i]))})

\* A retry-after value that is a number of seconds in decimal.
IsSeconds(h) == Truthy(h) /\ \A i \in 1..Len(h) : h[i] \in Digits

\* C1: one invocation of the retrying callGeminiAPI performs at most
\* maxRetries + 1 = 4 fetches, whatever the outcomes of the fetches.
C1_RetryBudget == Retrying(endpoint) => Len(hist) <= 4

C1_Witness ==
  /\ Retrying(endpoint) /\ pc = "apiThrew" /\ Len(hist) = 4
  /\ hist[1] = "s429" /\ hist[2] = "neterr" /\ hist[3] = "noParts" /\ hist[4] = "s500"

\* C2: when all maxRetries + 1 fetches of one invocation of the retrying
\* callGeminiAPI fail (non-2xx, network error or malformed 2xx reply), the
\* invocation throws the error of the last fetch and returns no value.
C2_LastErrorRaised ==
  (/\ Retrying(endpoint)
   /\ Len(hist) = maxRetries + 1
   /\ \A i \in 1..Len(hist) : hist[i] \in FailKinds)
  => (pc # "apiReturned" /\ thrown = maxRetries + 1 /\ apiResult = Null)

\* C3: a POST request all of whose fetches failed (non-2xx, network error or
\* malformed reply) ends with status 500, never with a success reply whose
\* text is null or empty.
C3_TransportFailureIs500 ==
  (pc = "done" /\ method = "POST" /\ modelCalls >= 1 /\ allFailed)
  => (status = 500 /\ ~(status = 200 /\ ~Truthy(response)))

\* C4: a 429 reply received by the retrying callGeminiAPI while
\* attempt < maxRetries is followed by a sleep and another fetch; the sleep
\* lasts 1000 ms times the retry-after value when the header is a number of
\* seconds, and 2^attempt seconds when there is no header, attempt being the
\* number of fetches that failed before this one.
C4_RateLimitWait ==
  (/\ Retrying(endpoint)
   /\ pc \in {"sleep", "apiThrew", "apiReturned"}
   /\ Last(hist) = "s429"
   /\ attempt < maxRetries)
  => /\ pc = "sleep"
     /\ attempt = Len(hist) - 1
     /\ attempt + 1 <= maxRetries
     /\ retryAfter = Null => waitMs = Pow2(Len(hist) - 1) * 1000
     /\ IsSeconds(retryAfter) => waitMs = DecimalOf(retryAfter) * 1000

C4_Witness ==
  /\ Retrying(endpoint) /\ pc = "sleep" /\ sleepBranch = "rate"
  /\ attempt = 2 /\ retryAfter = <<"2", "0">> /\ waitMs = 20000

\* C5: the retrying callGeminiAPI never returns from a 2xx reply that lacks
\* candidates, content, parts or the text of the first part; such a reply is
\* a failure that is retried.
C5_MalformedNeverReturned ==
  (Retrying(endpoint) /\ pc = "apiReturned") => Last(hist) \notin Malformed

\* C6 as claimed: whenever the first model reply contains a JSON array that
\* satisfies the schema, that reply is returned without warning after
\* exactly one model call.
C6_ContainsArrayOneCall ==
  (/\ Structured(endpoint) /\ pc = "done" /\ method = "POST"
   /\ IsText(res1) /\ ContainsValidArray(endpoint, res1))
  => (status = 200 /\ ~warning /\ response = res1 /\ modelCalls = 1)

\* C6: whenever the span from the first "[" to the last "]" of the first
\* model reply is a JSON array that satisfies the schema, that reply is
\* returned without warning after exactly one model call.
C6_ValidSpanOneCall ==
  (/\ Structured(endpoint) /\ pc = "done" /\ method = "POST"
   /\ IsText(res1) /\ ValidSpan(endpoint, res1))
  => (status = 200 /\ ~warning /\ response = res1 /\ modelCalls = 1)

C6_Witness ==
  /\ endpoint = "flashExpress" /\ pc = "done"
  /\ res1 = <<"x", "[", "F", "]", "x">>
  /\ response = res1 /\ ~warning /\ modelCalls = 1

\* C7: at most 2 invocations of the model client (the original prompt and
\* one strengthened prompt) are made for one request.
C7_AtMostTwoModelCalls == modelCalls <= 2

\* C8: a success reply of a structured endpoint without warning carries a
\* text from which a JSON array satisfying the endpoint's schema is
\* extracted.
C8_NoUnflaggedMalformed ==
  (/\ Structured(endpoint) /\ pc = "done" /\ method = "POST"
   /\ status = 200 /\ ~warning)
  => ValidSpan(endpoint, response)

\* C9: for /api/ask with a step-intent prompt, when both attempts return a
\* text without any numbered line, the reply carries the second text and a
\* warning, after exactly 2 model calls.
C9_UnnumberedTwiceWarned ==
  (/\ endpoint = "askExpress" /\ pc = "done" /\ expect = "markdownList"
   /\ IsText(res1) /\ res1 # <<>> /\ NumberedLineCount(res1) = 0
   /\ IsText(res2) /\ res2 # <<>> /\ NumberedLineCount(res2) = 0)
  => (response = res2 /\ warning /\ modelCalls = 2)

\* C10: when attempt 1 of callGeminiWithRetry returned a text that failed
\* validation, the value returned is attempt 1's text if attempt 2 threw or
\* produced no text, and attempt 2's text if that also failed validation.
C10_AttemptOneTextKept ==
  (/\ Express(endpoint) /\ pc = "wrReturned" /\ phase = 1 /\ modelCalls = 2
   /\ IsText(res1) /\ res1 # <<>> /\ ~Accepts(expect, res1))
  => /\ res2 \in {Threw, Undefined} => wrResult = res1
     /\ (IsText(res2) /\ ~Accepts(expect, res2)) => wrResult = res2

\* C11: a request of the express server all of whose fetches were well-formed
\* 2xx replies ends with status 200, and its reply carries either a text that
\* passed the validation of its expected shape or a text with a warning.
C11_ShapeNeverFatal ==
  (/\ Express(endpoint) /\ pc = "done" /\ modelCalls >= 1 /\ allOk
   /\ res1 # <<>> /\ res2 # <<>>)
  => /\ status = 200
     /\ IsText(response)
     /\ \/ warning
        \/ IF Structured(endpoint) THEN ValidSpan(endpoint, response)
                                   ELSE Accepts(expect, response)

\* C12: on the structured endpoints of the express server, when the first
\* reply has no bracket span that parses and the reply to the strengthened
\* prompt is the text [], the handler answers 200 with that text and no
\* warning, after exactly 2 model calls.
C12_EmptyArrayAccepted ==
  (/\ Express(endpoint) /\ Structured(endpoint) /\ pc = "done"
   /\ IsText(res1) /\ ~extractJsonArray(res1).ok
   /\ res2 = <<"[", "]">>)
  => (status = 200 /\ ~warning /\ response = res2 /\ modelCalls = 2)

C12_Witness ==
  /\ endpoint = "flashExpress" /\ pc = "done"
  /\ res1 = <<"x", "[", "x", "]", " ", "[", "F", "]">> /\ res2 = <<"[", "]">>
  /\ curPrompt = FlashPrompt(prompt) \o <<"FIX_JSON">>
  /\ status = 200 /\ ~warning /\ response = <<"[", "]">> /\ modelCalls = 2

BracketFree(t) == \A k \in 1..Len(t) : t[k] \notin {"[", "]"}

\* t is the text of one JSON array.
IsArrayText(t) == JSONParse(t).ok /\ JSONParse(t).val.t = "arr"

\* Some "[" of t comes before some "]" of t.
HasSpan(t) == \E i \in 1..Len(t) : \E j \in (i + 1)..Len(t) : t[i] = "[" /\ t[j] = "]"

\* The part of t from its first "[" to its last "]".
WidestSpan(t) ==
  SubSeq(t, CHOOSE i \in 1..Len(t) : t[i] = "[" /\ \A k \in 1..(i - 1) : t[k] # "[",
            CHOOSE j \in 1..Len(t) : t[j] = "]" /\ \A k \in (j + 1)..Len(t) : t[k] # "]")

\* C13: for every reply text a structured endpoint receives: if the text is
\* a bracket-free prefix, one JSON array and a bracket-free suffix, then
\* extractJsonArray returns that array parsed, callGeminiWithRetry accepts
\* the text and the handler's check passes when the array satisfies the
\* schema; if the text has no "[" before a "]", or the part from its first
\* "[" to its last "]" does not parse, extractJsonArray returns null.
C13_ExtractFromChatter ==
  (Structured(endpoint) /\ pc = "apiReturned" /\ IsText(apiResult))
  => LET t == apiResult
         got == extractJsonArray(t)
         validate == IF IsQuiz(endpoint) THEN "validateQuiz" ELSE "validateFlashcards"
     IN /\ \A i \in 1..Len(t) : \A j \in i..Len(t) :
             (/\ BracketFree(SubSeq(t, 1, i - 1))
              /\ BracketFree(SubSeq(t, j + 1, Len(t)))
              /\ IsArrayText(SubSeq(t, i, j)))
             => /\ got.ok
                /\ got.val = JSONParse(SubSeq(t, i, j)).val
                /\ Accepts("json", t)
                /\ SchemaOk(endpoint, JSONParse(SubSeq(t, i, j)).val)
                     => ~Invalid(validate, t)
        /\ ~HasSpan(t) => ~got.ok
        /\ (HasSpan(t) /\ ~JSONParse(WidestSpan(t)).ok) => ~got.ok

C13_Witness ==
  /\ endpoint = "quizExpress" /\ pc = "apiReturned"
  /\ apiResult = <<"x", "[", "Q", "]", "x">>
  /\ extractJsonArray(apiResult).ok
  /\ extractJsonArray(apiResult).val = JArr(<<ObjectOf("Q")>>)

\* The properties a schema requires of each item.
RequiredFields(e) ==
  IF IsQuiz(e) THEN {"question", "options", "correctAnswer", "explanation"}
  ELSE {"question", "answer"}

\* C14: every element of the array extracted from a reply that a structured
\* endpoint returns without warning is an object with all required fields
\* of the endpoint's schema, and the options of every quiz item are an array
\* of exactly 4 entries.
C14_RequiredFieldsPresent ==
  (/\ Structured(endpoint) /\ pc = "done" /\ method = "POST"
   /\ status = 200 /\ ~warning /\ extractJsonArray(response).ok)
  => LET items == extractJsonArray(response).val.items
     IN \A i \in 1..Len(items) :
          /\ items[i].t = "obj"
          /\ RequiredFields(endpoint) \subseteq DOMAIN items[i].f
          /\ IsQuiz(endpoint) =>
               /\ items[i].f["options"].t = "arr"
               /\ Len(items[i].f["options"].items) = 4

\* C15: the correctAnswer of every item of the array extracted from a reply
\* that /api/quiz of the express server returns without warning is equal to
\* one of the item's options.
C15_CorrectAnswerIsOption ==
  (/\ endpoint = "quizExpress" /\ pc = "done"
   /\ status = 200 /\ ~warning /\ extractJsonArray(response).ok)
  => LET items == extractJsonArray(response).val.items
     IN \A i \in 1..Len(items) :
          \E k \in 1..Len(items[i].f["options"].items) :
            items[i].f["options"].items[k] = items[i].f["correctAnswer"]

RECURSIVE Replay(_, _, _, _)
\* The locals of one invocation of kind that runs alone and whose fetches
\* from the k-th on have the outcomes h[k], h[k+1], ...
Replay(kind, loc, h, k) ==
  IF k > Len(h) THEN loc
  ELSE LET fetched == IF kind = "callGeminiAPI" THEN ApiFetched(loc, h[k], k)
                      ELSE WithRetryFetched(loc, h[k])
       IN IF k = Len(h) THEN fetched
          ELSE Replay(kind, IF fetched.pc = "sleep" THEN ApiWoke(fetched) ELSE fetched,
                      h, k + 1)

\* The number of fetches one invocation may make.
Budget(kind) == IF kind = "callGeminiAPI" THEN maxRetries + 1 ELSE maxTries

\* C16: under every interleaving of the invocations, the attempt counter,
\* last error, prompt, last text, position and result of each invocation are
\* those of an invocation that runs alone and sees the same outcomes of its
\* own fetches; each invocation makes at most its own budget of fetches, and
\* a retrying callGeminiAPI throws only after maxRetries + 1 failed fetches
\* of its own.
C16_NoInterference ==
  \A i \in Invocations :
    LET alone == Replay(cKind[i], InitialLocal(cKind[i], ConcPrompt(i)), cHist[i], 1)
    IN /\ cPc[i] # "idle" =>
            \/ Local(i) = alone
            \/ alone.pc = "sleep" /\ Local(i) = ApiWoke(alone)
       /\ Len(cHist[i]) <= Budget(cKind[i])
       /\ (cKind[i] = "callGeminiAPI" /\ cPc[i] = "threw")
            => /\ Len(cHist[i]) = maxRetries + 1
               /\ \A k \in 1..Len(cHist[i]) : cHist[i][k].kind # "ok"

\* One invocation has used up its budget on failures while another has only
\* just made its first fetch and still retries.
C16_Witness ==
  /\ cKind[1] = "callGeminiAPI" /\ cPc[1] = "threw" /\ Len(cHist[1]) = 4
  /\ cKind[2] = "callGeminiAPI" /\ cPc[2] = "sleep" /\ Len(cHist[2]) = 1
  /\ frames[1].attempt = 3 /\ frames[2].attempt = 0

C18_AnyReturnsAfterOneCall ==
  (/\ endpoint = "askExpress" /\ expect = "any"
   /\ pc \in {"wrReturned", "done"} /\ modelCalls >= 1
   /\ IsText(wrResult) /\ wrResult # <<>>)
  => /\ IsText(res1) => wrResult = res1
     /\ (res1 = Threw /\ IsText(res2)) => wrResult = res2
     /\ curPrompt = AskPrompt(prompt)
     /\ pc = "done" => (status = 200 /\ response = wrResult /\ ~warning)
     /\ modelCalls = 1

\* C19: after a fetch of the retrying callGeminiAPI that failed otherwise
\* than with status 429 (network error, other non-2xx status, malformed 2xx
\* reply) while fewer than maxRetries fetches had failed before it, the
\* invocation sleeps 2^attempt seconds, attempt being the number of fetches
\* that failed before this one, and then fetches again.
C19_BackoffAfterFailure ==
  (/\ Retrying(endpoint)
   /\ pc \in {"sleep", "apiThrew", "apiReturned"}
   /\ Last(hist) \in FailKinds \ {"s429"}
   /\ Len(hist) - 1 < maxRetries)
  => /\ pc = "sleep" /\ sleepBranch = "catch"
     /\ attempt = Len(hist) - 1
     /\ waitMs = Pow2(Len(hist) - 1) * 1000
     /\ waitMs \in {1000, 2000, 4000}

\* The corrective instruction callGeminiWithRetry appends for a shape.
Corrective(exp) == IF exp = "json" THEN <<"FIX_JSON">> ELSE <<"FIX_LIST">>

\* The prompt a handler of the express server passes to its first
\* callGeminiWithRetry.
OriginalPrompt(e, p) ==
  IF e = "askExpress" THEN AskPrompt(p)
  ELSE IF IsQuiz(e) THEN QuizPrompt(p) ELSE FlashPrompt(p)

\* C20: within the first callGeminiWithRetry of a request of the express
\* server, the first callGeminiAPI invocation gets the original prompt; a
\* second invocation is made only when the first returned a text that
\* failed the validation of the expected shape, and its prompt is the
\* original prompt followed by the corrective instruction of that shape.
C20_SecondCallOnlyAfterInvalidText ==
  (Express(endpoint) /\ phase = 1 /\ pc = "fetch")
  => /\ wrAttempt = 1 => curPrompt = OriginalPrompt(endpoint, prompt)
     /\ wrAttempt = 2 =>
          /\ IsText(res1) /\ ~Accepts(expect, res1)
          /\ curPrompt = OriginalPrompt(endpoint, prompt) \o Corrective(expect)

\* Number of lines of a text that are not empty once trimmed.
NonEmptyLineCount(t) ==
  LET raw == SplitLines(t, 1, <<>>)
  IN Cardinality({i \in 1..Len(raw) : Trim(raw[i]) # <<>>})

C22_FirstFailureLogged ==
  (/\ Express(endpoint) /\ Structured(endpoint) /\ pc = "done"
   /\ IsText(res1) /\ res1 # <<>>)
  => IF ValidSpan(endpoint, res1) THEN log = <<>>
     ELSE /\ Len(log) = 1
          /\ log[1].prompt = Substring(OriginalPrompt(endpoint, prompt), 500)
          /\ log[1].response = Substring(res1, 2000)

\* The text t contains the lower-case word w, whatever the case of t.
ContainsIgnoringCase(t, w) ==
  LET low == [i \in 1..Len(t) |-> ToLower(t[i])]
  IN \E i \in 1..Len(t) : i + Len(w) - 1 <= Len(t) /\ SubSeq(low, i, i + Len(w) - 1) = w

\* C23: the first callGeminiWithRetry of /api/ask of the express server
\* expects markdownList exactly when the prompt contains "step" or
\* "procedure" in any case; then its prompt is the request's prompt followed
\* by the numbered-list instruction, and otherwise it is the request's
\* prompt unchanged and the expected shape is any.
C23_StepIntent ==
  (endpoint = "askExpress" /\ wrAttempt = 1 /\ pc = "fetch")
  => LET intent == \/ ContainsIgnoringCase(TextOf(prompt), <<"s", "t", "e", "p">>)
                   \/ ContainsIgnoringCase(TextOf(prompt),
                        <<"p", "r", "o", "c", "e", "d", "u", "r", "e">>)
     IN /\ expect = "markdownList" <=> intent
        /\ intent => curPrompt = prompt \o <<"LIST_INSTR">>
        /\ ~intent => (curPrompt = prompt /\ expect = "any")

C23_Witness ==
  /\ endpoint = "askExpress" /\ wrAttempt = 1 /\ pc = "fetch"
  /\ prompt = <<"PROCEDURE">>
  /\ expect = "markdownList" /\ curPrompt = <<"PROCEDURE", "LIST_INSTR">>

\* C24: when every fetch and every sleep completes, every invocation of the
\* retrying callGeminiAPI that has been entered eventually returns a text or
\* throws, and every callGeminiWithRetry that has been entered eventually
\* returns a text or throws.
C24_EndsWithTextOrError ==
  /\ (Retrying(endpoint) /\ pc = "fetch")
       ~> (\/ pc = "apiReturned" /\ IsText(apiResult)
           \/ pc = "apiThrew")
  /\ (Express(endpoint) /\ pc = "fetch")
       ~> (pc = "wrReturned" /\ IsText(wrResult))

\* C25: in the retrying callGeminiAPI, the fetch that receives a well-formed
\* 2xx reply ends the invocation at once: it returns the text of that
\* reply's first part whatever failures came before, no sleep is started,
\* and afterwards the invocation performs no fetch and no sleep.
C25_ReturnsOnFirstGoodReply ==
  /\ [][\A r \in RemoteReplies(endpoint) :
          (Retrying(endpoint) /\ pc = "fetch" /\ r.kind = "ok" /\ callGeminiAPIStep(r))
            => /\ pc' = "apiReturned"
               /\ apiResult' = r.text
               /\ waitMs' = 0 /\ sleepBranch' = "none"]_vars
  /\ [][(Retrying(endpoint) /\ hist # <<>> /\ Last(hist) = "ok")
          => (hist' = hist /\ pc' \notin {"fetch", "sleep"})]_vars

\* A good reply arrives after a rate-limited and a failed fetch.
C25_Witness ==
  /\ Retrying(endpoint) /\ pc = "apiReturned"
  /\ hist = <<"s429", "s500", "ok">>
  /\ apiResult # <<>> /\ IsText(apiResult)

\* The fetches the current callGeminiAPI invocation has issued: those that
\* have settled and the one in flight.
Issued == Len(hist) + IF pc = "fetch" THEN 1 ELSE 0

\* C26: in the retrying callGeminiAPI one counter serves both retry branches:
\* attempt only ever grows by exactly 1, at the end of the sleep that follows
\* a failed fetch (a 429 retried by the rate-limit branch is not counted
\* again by the catch branch); once the invocation is entered the number of
\* fetches issued is attempt + 1, and attempt never exceeds maxRetries.
C26_SharedAttemptCounter ==
  /\ []((Retrying(endpoint) /\ modelCalls >= 1)
          => (Issued = attempt + 1 /\ attempt <= maxRetries))
  /\ [][(Retrying(endpoint) /\ modelCalls >= 1 /\ attempt' # attempt)
          => /\ pc = "sleep" /\ attempt' = attempt + 1
             /\ Last(hist) # "ok"
             /\ hist' = hist]_vars

\* Two rate-limit retries and one catch retry have used up the counter.
C26_Witness ==
  /\ Retrying(endpoint) /\ pc = "fetch"
  /\ hist = <<"s429", "s429", "neterr">>
  /\ attempt = maxRetries

IsCardArray(t) ==
  Truthy(t) /\ The({v.ok /\ validateFlashcards(v.val) : v \in {JSONParse(t)}})

\* The cards of the array text t, each with the id generateFlashcards adds.
CardsOf(t) ==
  The({[i \in 1..Len(items) |-> JObj(WithId(items[i].f, <<"flashcard", i - 1>>))]
       : items \in {JSONParse(t).val.items}})

\* C28: when the reply of /api/ask is a valid JSON array of flashcard
\* objects, generateFlashcards resolves to the cards of that array, in order,
\* with their question and answer and an added id: cleanNumberedSteps does
\* not make the array unparsable and does not alter its strings.
C28_ValidArrayReturned ==
  (/\ gPc = "resolved" /\ generator = "generateFlashcards"
   /\ served.kind = "ok" /\ IsCardArray(served.response))
    => (~gResult.threw /\ gResult.val = CardsOf(served.response))

\* The single item of a one-item result, the placeholder with the given id.
IsPlaceholder(r, id) ==
  ~r.threw /\ Len(r.val) = 1 /\ r.val[1].f["id"] = JStr(<<id>>)

\* C29: generateFlashcards, generateQuiz and generateCompanyQuestions never
\* reject.  On an HTTP error, a rejected fetch or an unreadable body, and on a
\* span that JSON.parse rejects, they resolve to an array holding exactly the
\* one 'error' placeholder; on a reply without a bracketed span they resolve
\* to an array holding exactly the one 'fallback' placeholder.
C29_GeneratorsNeverReject ==
  gPc = "resolved"
    => /\ ~gResult.threw
       /\ served.kind # "ok" => IsPlaceholder(gResult, "error")
       /\ (served.kind = "ok" /\ ~BracketSpan(gText).found)
            => IsPlaceholder(gResult, "fallback")
       /\ (/\ served.kind = "ok" /\ BracketSpan(gText).found
           /\ The({~JSONParse(SubSeq(c, BracketSpan(c).from, BracketSpan(c).to)).ok
                   : c \in {cleanNumberedSteps(gText)}}))
            => IsPlaceholder(gResult, "error")

\* generateQuiz receives a bracketed span that is not JSON.
C29_Witness ==
  /\ gPc = "resolved" /\ generator = "generateQuiz"
  /\ served = [kind |-> "ok", response |-> <<"[", "x", "]">>]
  /\ IsPlaceholder(gResult, "error")

\* C30: in AdvancedFlashcards, whatever the clicks on the mark buttons, the
\* callbacks they schedule, the auto-play ticks and the clicks on Next and
\* Previous, the current index designates a card of the deck whenever the
\* deck is not empty, and no card is both mastered and difficult.
C30_IndexInDeck ==
  /\ flashcards # <<>> => currentIndex \in 0..(Len(flashcards) - 1)
  /\ mastered \cap difficult = {}

====
